---- MODULE Spec2Model ----
(***************************************************************************)
(* Model of retirement_planner.py: the projection engine                   *)
(* calculate_retirement_plan (a month-by-month recurrence over two numpy   *)
(* arrays) and the analysis part of main that reads its result.            *)
(*                                                                         *)
(* Numbers.  Money is an integer number of dollars, as the integer         *)
(* number_input widgets deliver it.  Rates are fixed-point with Scale      *)
(* units to one: expected_return = 70 is 0.070, the slider's 7.0 / 100.    *)
(* A product with a rate is rounded down to a whole unit, which stands for *)
(* the rounding of the float64 product.  Arrays keep the source's indices: *)
(* an array of length n is a function on 0..n-1.                           *)
(***************************************************************************)
EXTENDS Integers, FiniteSets

\* ---------------------------------------------------------------- bounds
\* Year counts are drawn from -1..MaxYears (main: 0..MaxYears).
MaxYears == 2
\* Money inputs are 0..MaxUnits steps of their widget's step.
MaxUnits == 2

\* ------------------------------------------------------ program constants
\* One unit of rate is 1/Scale: the slider moves by 0.1 and is divided by 100.
Scale == 1000
\* total_months = (...) * 12
MonthsPerYear == 12
\* step=100 of the expense and contribution inputs
AmountStep == 100
\* step=1000 of the savings input
SavingsStep == 1000
\* max_value=15.0 of the slider, in units of 1/Scale
MaxReturn == 150

Min(a, b) == IF a <= b THEN a ELSE b
Max(a, b) == IF a >= b THEN a ELSE b

\* ------------------------------------------------------------- the inputs
\* What the widgets of main can deliver (min_value=0 everywhere).
WidgetYears == 0..MaxYears
WidgetAmounts == {AmountStep * u : u \in 0..MaxUnits}
WidgetSavings == {SavingsStep * u : u \in 0..MaxUnits}
WidgetReturns == {0, 70, MaxReturn}
\* What a direct caller of the engine can pass: nothing is validated.
DirectYears == -1..MaxYears
DirectReturns == WidgetReturns \cup {-Scale, -(Scale \div 2)}

\* ---------------------------------------------------- fixed-point helpers
RootRange == 0..(Scale + Scale \div 4)
\* floor(sqrt(v)) and floor(cbrt(v))
ISqrt(v) == CHOOSE g \in RootRange : g * g <= v /\ (g + 1) * (g + 1) > v
ICbrt(v) == CHOOSE g \in RootRange :
              g * g * g <= v /\ (g + 1) * (g + 1) * (g + 1) > v
\* x ** (1/12) for x >= 0 in units of 1/Scale: the twelfth root is the square
\* root of the square root of the cube root, each rounded down.
Root12(x) == ISqrt(Scale * ISqrt(Scale * ICbrt(Scale * Scale * x)))

\* line 11: monthly_return = (1 + expected_return) ** (1/12) - 1
MonthlyReturnNoMinusOne(r) == Root12(Scale + r)
MonthlyReturn(r) == Root12(Scale + r) - Scale

\* line 14: total_months = (years_to_retirement + years_after_retirement) * 12
TotalMonthsWorkingOnly(yt, ya) == yt * MonthsPerYear
TotalMonths(yt, ya) == (yt + ya) * MonthsPerYear

\* line 15: months_to_retirement = years_to_retirement * 12
MonthsToRetirement(yt) == yt * MonthsPerYear

\* np.zeros(n), n >= 0: n zeros at indices 0..n-1
NpZeros(n) == [k \in 0..(n - 1) |-> 0]
\* len(a)
Length(a) == Cardinality(DOMAIN a)

\* line 20: savings[0] = current_savings
SeedMissing(a, cs) == a
Seed(a, cs) == [a EXCEPT ![0] = cs]

\* range(1, total_months + 1): the loop runs while i <= total_months
LoopContinues(k, total) == k <= total

\* line 24: if i <= months_to_retirement
InAccumulationStrict(k, mtr) == k < mtr
InAccumulation(k, mtr) == k <= mtr

\* savings[i-1] * (1 + monthly_return)
Grow(b, mr) == (b * (Scale + mr)) \div Scale

\* line 26: savings[i] = (savings[i-1] * (1 + monthly_return)) + monthly_contribution
AccumulateNoContribution(prev, mr, mc) == Grow(prev, mr)
AccumulateStep(prev, mr, mc) == Grow(prev, mr) + mc

\* line 30: savings[i] = (savings[i-1] * (1 + monthly_return)) - monthly_expense_retired
DecumulateClamped(prev, mr, me) == Max(0, Grow(prev, mr) - me)
DecumulateStep(prev, mr, me) == Grow(prev, mr) - me

\* line 27: monthly_cashflow[i] = monthly_contribution
CashflowIn(mc) == mc
\* line 31: monthly_cashflow[i] = -monthly_expense_retired
CashflowOutUnsigned(me) == me
CashflowOut(me) == -me

\* lines 20-31 as a function of the inputs: savings[k] of a call with these
\* arguments (a second call, to compare with the one the actions carry out)
RECURSIVE BalanceAt(_, _, _, _, _, _)
BalanceAt(k, mtr, mr, cs, mc, me) ==
  IF k = 0 THEN cs
  ELSE IF InAccumulation(k, mtr)
    THEN AccumulateStep(BalanceAt(k - 1, mtr, mr, cs, mc, me), mr, mc)
    ELSE DecumulateStep(BalanceAt(k - 1, mtr, mr, cs, mc, me), mr, me)

\* savings[-1] of calculate_retirement_plan(me, ya, yt, cs, mc, r), total_months >= 0
FinalBalance(me, ya, yt, cs, mc, r) ==
  BalanceAt(TotalMonths(yt, ya), MonthsToRetirement(yt), MonthlyReturn(r), cs, mc, me)

\* ------------------------------------------------------------------ state
VARIABLES
  caller,                   \* "main" or "direct": who calls the engine
  monthly_expense_retired, years_after_retirement, years_to_retirement,
  current_savings, monthly_contribution, expected_return,
  pc,                       \* "start", "loop", "raised", "returned", "reported"
  monthly_return, total_months, months_to_retirement,
  savings, monthly_cashflow, i,
  final_savings, retirement_savings, verdict, additional_monthly_needed

inputs == <<caller, monthly_expense_retired, years_after_retirement,
            years_to_retirement, current_savings, monthly_contribution,
            expected_return>>
locals == <<monthly_return, total_months, months_to_retirement>>
arrays == <<savings, monthly_cashflow, i>>
report == <<final_savings, retirement_savings, verdict, additional_monthly_needed>>
vars == <<inputs, pc, locals, arrays, report>>

None == "none"
Empty == NpZeros(0)

Init ==
  /\ caller \in {"main", "direct"}
  /\ years_after_retirement \in (IF caller = "main" THEN WidgetYears ELSE DirectYears)
  /\ years_to_retirement \in (IF caller = "main" THEN WidgetYears ELSE DirectYears)
  /\ expected_return \in (IF caller = "main" THEN WidgetReturns ELSE DirectReturns)
  /\ monthly_expense_retired \in WidgetAmounts
  /\ monthly_contribution \in WidgetAmounts
  /\ current_savings \in WidgetSavings
  /\ pc = "start"
  /\ monthly_return = 0
  /\ total_months = 0
  /\ months_to_retirement = 0
  /\ savings = Empty
  /\ monthly_cashflow = Empty
  /\ i = 0
  /\ final_savings = 0
  /\ retirement_savings = 0
  /\ verdict = None
  /\ additional_monthly_needed = [kind |-> None, value |-> 0]

\* ------------------------------------------- calculate_retirement_plan
\* lines 11-20 when np.zeros accepts the length
Setup ==
  /\ pc = "start"
  /\ TotalMonths(years_to_retirement, years_after_retirement) + 1 >= 0
  /\ monthly_return' = MonthlyReturn(expected_return)
  /\ total_months' = TotalMonths(years_to_retirement, years_after_retirement)
  /\ months_to_retirement' = MonthsToRetirement(years_to_retirement)
  /\ savings' = Seed(NpZeros(total_months' + 1), current_savings)
  /\ monthly_cashflow' = NpZeros(total_months' + 1)
  /\ i' = 1
  /\ pc' = "loop"
  /\ UNCHANGED <<inputs, report>>

\* lines 11-18 when the length is negative: np.zeros raises ValueError
SetupRaises ==
  /\ pc = "start"
  /\ TotalMonths(years_to_retirement, years_after_retirement) + 1 < 0
  /\ monthly_return' = MonthlyReturn(expected_return)
  /\ total_months' = TotalMonths(years_to_retirement, years_after_retirement)
  /\ months_to_retirement' = MonthsToRetirement(years_to_retirement)
  /\ pc' = "raised"
  /\ UNCHANGED <<inputs, arrays, report>>

\* lines 23-27: one iteration in the accumulation phase
Accumulate ==
  /\ pc = "loop"
  /\ LoopContinues(i, total_months)
  /\ InAccumulation(i, months_to_retirement)
  /\ savings' = [savings EXCEPT
                   ![i] = AccumulateStep(savings[i - 1], monthly_return,
                                         monthly_contribution)]
  /\ monthly_cashflow' = [monthly_cashflow EXCEPT ![i] = CashflowIn(monthly_contribution)]
  /\ i' = i + 1
  /\ UNCHANGED <<inputs, pc, locals, report>>

\* lines 23, 28-31: one iteration in the retirement phase
Decumulate ==
  /\ pc = "loop"
  /\ LoopContinues(i, total_months)
  /\ ~InAccumulation(i, months_to_retirement)
  /\ savings' = [savings EXCEPT
                   ![i] = DecumulateStep(savings[i - 1], monthly_return,
                                         monthly_expense_retired)]
  /\ monthly_cashflow' = [monthly_cashflow EXCEPT
                            ![i] = CashflowOut(monthly_expense_retired)]
  /\ i' = i + 1
  /\ UNCHANGED <<inputs, pc, locals, report>>

\* line 33: the range is exhausted, both arrays are returned
Return ==
  /\ pc = "loop"
  /\ ~LoopContinues(i, total_months)
  /\ pc' = "returned"
  /\ UNCHANGED <<inputs, locals, arrays, report>>

\* ------------------------------------------------------------------ main
\* savings[-1]: the last element
Last(a) == a[Length(a) - 1]

\* line 178: if final_savings > 0
Sustainable(fs) == fs > 0

\* (1 + expected_return/12) ** n in units of 1/Scale, n >= 0
RECURSIVE Power(_, _)
Power(r, n) ==
  IF n = 0 THEN Scale
  ELSE (Power(r, n - 1) * (MonthsPerYear * Scale + r)) \div (MonthsPerYear * Scale)

\* line 185: (shortfall / (years_to_retirement * 12))
\*           * (1 / (1 + expected_return/12) ** (years_to_retirement * 12))
\* in cents.  shortfall is a numpy float64, so a zero divisor raises nothing:
\* the quotient is inf (nan for 0/0) and stays so through the product.
AdditionalMonthlyNeeded(sf, yt, r) ==
  LET months == yt * MonthsPerYear IN
  IF months = 0
    THEN [kind |-> IF sf = 0 THEN "nan" ELSE "inf", value |-> 0]
    ELSE [kind |-> "finite",
          value |-> (((sf * 100) \div months) * Scale) \div Power(r, months)]

Abs(x) == IF x < 0 THEN -x ELSE x

\* lines 158-182: the metrics, then st.success
ReportSuccess ==
  /\ pc = "returned"
  /\ caller = "main"
  /\ Sustainable(Last(savings))
  /\ retirement_savings' = savings[years_to_retirement * MonthsPerYear]
  /\ final_savings' = Last(savings)
  /\ verdict' = "success"
  /\ pc' = "reported"
  /\ UNCHANGED <<inputs, locals, arrays, additional_monthly_needed>>

\* lines 158-170, 183-196: the metrics, then st.error with the estimate
ReportError ==
  /\ pc = "returned"
  /\ caller = "main"
  /\ ~Sustainable(Last(savings))
  /\ retirement_savings' = savings[years_to_retirement * MonthsPerYear]
  /\ final_savings' = Last(savings)
  /\ verdict' = "error"
  /\ additional_monthly_needed' =
       AdditionalMonthlyNeeded(Abs(Last(savings)), years_to_retirement,
                               expected_return)
  /\ pc' = "reported"
  /\ UNCHANGED <<inputs, locals, arrays>>

Next ==
  \/ Setup
  \/ SetupRaises
  \/ Accumulate
  \/ Decumulate
  \/ Return
  \/ ReportSuccess
  \/ ReportError

Spec == Init /\ [][Next]_vars

\* ----------------------------------------------------------------- claims
\* The preconditions of the engine's contract on the year counts.
ValidYears == years_to_retirement >= 0 /\ years_after_retirement >= 0
Filled == pc \in {"loop", "returned", "reported"}

\* C1: every month written so far is the previous balance grown by the monthly
\* rate, plus the contribution up to months_to_retirement and minus the expense
\* after it; nothing is clamped, a negative balance is grown and carried on.
C1_Recurrence ==
  Filled =>
    \A k \in 1..(i - 1) :
      savings[k] = ((savings[k - 1] * (Scale + monthly_return)) \div Scale)
                   + (IF k <= years_to_retirement * 12
                        THEN monthly_contribution
                        ELSE -monthly_expense_retired)

\* C1 witness: a returned plan with both phases, a positive rate, and a balance
\* below zero that the next month carries further down.
C1_Witness ==
  /\ pc = "returned"
  /\ years_to_retirement >= 1 /\ years_after_retirement >= 1
  /\ monthly_return > 0
  /\ \E k \in 1..(total_months - 1) : savings[k] < 0 /\ savings[k + 1] < savings[k]

\* C2: with both year counts >= 0 the two returned arrays have the same
\* length, (years_to_retirement + years_after_retirement) * 12 + 1.
C2_Length ==
  (pc = "returned" /\ ValidYears) =>
    /\ Length(savings) = Length(monthly_cashflow)
    /\ Length(savings) = (years_to_retirement + years_after_retirement) * 12 + 1

\* C2 witness: a returned plan with working and retirement years.
C2_Witness ==
  /\ pc = "returned"
  /\ years_to_retirement >= 1 /\ years_after_retirement >= 1
  /\ Length(savings) = Length(monthly_cashflow)
  /\ Length(savings) > 12 + 1

\* C3 (as claimed): a call with a negative year count or a return <= -1 never
\* returns a result.
C3_InvalidRejected ==
  (years_to_retirement < 0 \/ years_after_retirement < 0 \/ expected_return <= -Scale)
    => pc # "returned"

\* C4: in the result, the cash flow is 0 at index 0, the contribution at
\* 1..months_to_retirement and minus the expense after that.
C4_Cashflow ==
  pc = "returned" =>
    /\ monthly_cashflow[0] = 0
    /\ \A k \in 1..total_months :
         monthly_cashflow[k] = IF k <= years_to_retirement * 12
                                 THEN monthly_contribution
                                 ELSE -monthly_expense_retired

\* C4 witness: a returned plan with both phases and nonzero flows.
C4_Witness ==
  /\ pc = "returned"
  /\ years_to_retirement >= 1 /\ years_after_retirement >= 1
  /\ monthly_contribution > 0 /\ monthly_expense_retired > 0

\* The cash flow is positive at months_to_retirement and negative right after.
PhaseTransition ==
  /\ months_to_retirement \in DOMAIN monthly_cashflow
  /\ monthly_cashflow[months_to_retirement] > 0
  /\ months_to_retirement + 1 \in DOMAIN monthly_cashflow
  /\ monthly_cashflow[months_to_retirement + 1] < 0

\* C5 (as claimed): for every valid input with a positive contribution and a
\* positive expense the phase transition shows in the cash flow.
C5_Original ==
  (pc = "returned" /\ ValidYears
     /\ monthly_contribution > 0 /\ monthly_expense_retired > 0)
    => PhaseTransition

\* C5 (amended): the same, for plans with at least one working year and at
\* least one retirement year.
C5_PhaseTransition ==
  (pc = "returned"
     /\ years_to_retirement >= 1 /\ years_after_retirement >= 1
     /\ monthly_contribution > 0 /\ monthly_expense_retired > 0)
    => PhaseTransition

\* C5 witness: such a plan, with the two values at the transition.
C5_Witness ==
  /\ pc = "returned"
  /\ years_to_retirement >= 1 /\ years_after_retirement >= 1
  /\ monthly_contribution > 0 /\ monthly_expense_retired > 0
  /\ monthly_cashflow[months_to_retirement] = monthly_contribution
  /\ monthly_cashflow[months_to_retirement + 1] = -monthly_expense_retired

\* The final balance of the call that differs only in its contribution, c2.
FinalWith(c2) ==
  FinalBalance(monthly_expense_retired, years_after_retirement,
               years_to_retirement, current_savings, c2, expected_return)
LargerContributions == {c2 \in WidgetAmounts : c2 > monthly_contribution}

C8_ZeroHorizon ==
  (pc = "returned" /\ years_to_retirement = 0 /\ years_after_retirement = 0) =>
    /\ savings = [k \in {0} |-> current_savings]
    /\ monthly_cashflow = [k \in {0} |-> 0]
    /\ i = 1

\* C8 witness: a zero-horizon call with nonzero savings, flows and return.
C8_Witness ==
  /\ pc = "returned"
  /\ years_to_retirement = 0 /\ years_after_retirement = 0
  /\ current_savings > 0 /\ monthly_contribution > 0
  /\ monthly_expense_retired > 0 /\ expected_return # 0

\* C9 (as claimed): main reports the plan as sustainable exactly when the final
\* balance is >= 0 and warns exactly when it is < 0.
C9_VerdictSplit ==
  pc = "reported" =>
    /\ (verdict = "success") <=> (final_savings >= 0)
    /\ (verdict = "error") <=> (final_savings < 0)

\* C10 (as claimed): whenever main warns of a shortfall (a final balance below
\* zero), the divisor years_to_retirement * 12 is not zero and the estimate is
\* a finite number >= 0.
C10_EstimateFinite ==
  (pc = "reported" /\ verdict = "error" /\ final_savings < 0) =>
    /\ years_to_retirement * 12 # 0
    /\ additional_monthly_needed.kind = "finite"
    /\ additional_monthly_needed.value >= 0

====
